---- MODULE Spec2Model ----
(***************************************************************************)
(* Model of werkzeug.routing.map: Map (rule registry, lazy recompilation   *)
(* under a double-checked lock) and MapAdapter (match, build).             *)
(*                                                                         *)
(* Rule (routing/rules.py) and StateMachineMatcher (routing/matcher.py)    *)
(* are collaborators of map.py; they are modelled from their contract.     *)
(*                                                                         *)
(* The specifications share the state:                                     *)
(*   Spec        threads interleave Map.add, Map.update and the update     *)
(*               prefix of MapAdapter.match / MapAdapter.build, one        *)
(*               program statement per step;                               *)
(*   SpecUpdate  the same steps without add, on a dirty Map;               *)
(*   SpecMatch   one caller adds rules and matches, each call whole;       *)
(*   SpecBuild   one caller adds rules and builds, each call whole.        *)
(***************************************************************************)
EXTENDS Integers, Sequences, FiniteSets, TLC

(* ------------------------------ bounds -------------------------------- *)
NumThreads == 2
MaxFailures == 1
MaxRules == 2

Threads == 1..NumThreads
NoThread == 0
NoRule == 0

(* ------------------------------ rules --------------------------------- *)
(* A Rule: endpoint, pattern ("/" and a static segment, optionally         *)
(* followed by the variable segment <int:x>), methods ({} stands for None: *)
(* any method), defaults (x's default, 0 for no defaults), websocket,      *)
(* build_only, alias, redirect_to ("" for None, a target path, or          *)
(* "callable" for a function of the values) and the domain-part it is      *)
(* bound to: "own" is the domain-part the adapters are bound to (the       *)
(* default subdomain, or with host matching the server name), "other" a    *)
(* different, explicitly given one.                                        *)
Endpoints == {"e1", "e2"}
EndpointOrder == <<"e1", "e2">>

MkRule(ep, st, hv, df, ms, ws, bo, al, rt, dom) ==
    [endpoint |-> ep, static |-> st, hasVar |-> hv, defaults |-> df,
     methods |-> ms, websocket |-> ws, build_only |-> bo, alias |-> al,
     redirect_to |-> rt, domain |-> dom]

RuleTable ==
    <<  MkRule("e2", "b", TRUE,  0, {},       FALSE, FALSE, FALSE, "",         "own"),
        MkRule("e2", "b", FALSE, 1, {},       FALSE, FALSE, FALSE, "",         "own"),
        MkRule("e1", "a", FALSE, 0, {"GET"},  FALSE, FALSE, FALSE, "",         "own"),
        MkRule("e1", "a", FALSE, 0, {"POST"}, FALSE, FALSE, FALSE, "",         "own"),
        MkRule("e1", "a", FALSE, 0, {},       TRUE,  FALSE, FALSE, "",         "own"),
        MkRule("e2", "c", FALSE, 0, {},       FALSE, FALSE, TRUE,  "",         "own"),
        MkRule("e1", "a", FALSE, 0, {},       FALSE, FALSE, FALSE, "/t",       "own"),
        MkRule("e2", "b", TRUE,  0, {},       FALSE, FALSE, FALSE, "callable", "own"),
        MkRule("e1", "z", FALSE, 0, {},       FALSE, TRUE,  FALSE, "",         "own"),
        MkRule("e1", "a", FALSE, 0, {},       FALSE, FALSE, FALSE, "",         "other"),
        MkRule("e2", "c", FALSE, 1, {},       FALSE, FALSE, FALSE, "",         "own") >>

RuleIds == 1..Len(RuleTable)
R(r) == RuleTable[r]

(* Rule.arguments: the variable names the rule accepts (pattern variables  *)
(* and the keys of defaults); the only variable name is x.                 *)
Arguments(r) == IF R(r).hasVar \/ R(r).defaults # 0 THEN {"x"} ELSE {}

(* Rule.build_compare_key: fewer variable parts first, then more static    *)
(* weight, then an explicit domain binding.                                *)
StaticWeight(r) == Len(R(r).static)
build_compare_key(r) ==
    100 * (IF R(r).hasVar THEN 1 ELSE 0)
      + 10 * (9 - StaticWeight(r))
      + (IF R(r).domain # "own" THEN 0 ELSE 1)

(* list.sort(key=...): a stable sort, here by insertion: a rule goes       *)
(* behind every rule whose key is not greater than its own.                *)
RECURSIVE InsertByKey(_, _)
InsertByKey(s, r) ==
    IF s = << >> THEN <<r>>
    ELSE IF build_compare_key(r) < build_compare_key(Head(s))
         THEN <<r>> \o s
         ELSE <<Head(s)>> \o InsertByKey(Tail(s), r)

RECURSIVE SortInto(_, _)
SortInto(acc, s) ==
    IF s = << >> THEN acc
    ELSE SortInto(InsertByKey(acc, Head(s)), Tail(s))

SortRules(s) == SortInto(<< >>, s)

IsSorted(s) ==
    \A i \in 1..Len(s) : \A j \in 1..Len(s) :
        i < j => build_compare_key(s[i]) <= build_compare_key(s[j])

Range(s) == {s[i] : i \in 1..Len(s)}

(* ------------------------------ state --------------------------------- *)
VARIABLES
    rules_by_endpoint,  \* Map._rules_by_endpoint: endpoint -> list of rules
    matcher_rules,      \* rules given to Matcher.add, in registration order
    matcher_compiled,   \* rules the last Matcher.update compiled
    remap,              \* Map._remap, the dirty flag
    remap_lock,         \* Map._remap_lock: the holding thread, or NoThread
    unbound,            \* rules not yet bound to the Map
    pc,                 \* each thread's position
    op,                 \* the call each thread is in
    arg,                \* the rule a thread is adding
    sort_i,             \* the lock holder's position in the sort loop
    snap,               \* rules appended when the running recompilation began
    covered,            \* rules included in a completed recompilation
    returned,           \* rules whose add call has returned
    started,            \* per thread: `returned` when its match/build began
    fresh,              \* no flag set since the last Matcher.update began
    redirect_defaults,  \* Map.redirect_defaults
    host_matching,      \* Map.host_matching
    last,               \* the last MapAdapter call: arguments, outcome, result
    failures            \* recompilations that ended in an exception

vars == <<rules_by_endpoint, matcher_rules, matcher_compiled, remap,
          remap_lock, unbound, pc, op, arg, sort_i, snap, covered, returned,
          started, fresh, redirect_defaults, host_matching, last, failures>>

mapvars == <<rules_by_endpoint, matcher_rules, matcher_compiled, remap>>
histvars == <<covered, returned, fresh>>
cfgvars == <<redirect_defaults, host_matching, last, failures>>

Appended == UNION {Range(rules_by_endpoint[e]) : e \in Endpoints}

(* the rules the threads of Spec add: both of endpoint e2, the second one  *)
(* sorting before the first                                                *)
ConcRules == {1, 2}
(* the rules matched against, and the rules built from *)
MatchRules == (1..8) \cup {11}
BuildRules == {1, 2, 3, 4, 5, 9, 10}

(* ------------------------- Rule (contract) ---------------------------- *)
NoneStr == "None"              \* Python's None where a string may stand
Truthy(s) == s # "" /\ s # NoneStr

ServerName == "example.com"

(* the rule's domain-part: its subdomain, or with host matching its host *)
RuleDomain(hm, r) ==
    IF R(r).domain = "own" THEN (IF hm THEN ServerName ELSE "")
    ELSE (IF hm THEN "other.org" ELSE "www")

(* IntegerConverter.to_url *)
to_url(v) == CASE v = 1 -> "1" [] v = 2 -> "2" [] OTHER -> "?"

(* values the converter of <int:x> can format *)
Convertible == {1, 2}

(* the rule's path without the leading separator, for the value x *)
PathRel(r, x) ==
    IF R(r).hasVar THEN R(r).static \o "/" \o to_url(x) ELSE R(r).static

(* Rule.methods accepts the method (methods None accepts every method) *)
MethodOk(r, m) == R(r).methods = {} \/ m \in R(r).methods

(* Rule.suitable_for(values, method): the method is accepted (None asks    *)
(* for no method), every variable the defaults do not supply is in values, *)
(* and no value contradicts a default.                                     *)
suitable_for(r, x, m) ==
    /\ m = NoneStr \/ MethodOk(r, m)
    /\ (R(r).hasVar /\ R(r).defaults = 0) => x # 0
    /\ (R(r).defaults # 0 /\ x # 0) => x = R(r).defaults

(* Rule.provides_defaults_for(rule) *)
provides_defaults_for(r, rule) ==
    /\ ~R(r).build_only
    /\ R(r).defaults # 0
    /\ R(r).endpoint = R(rule).endpoint
    /\ r # rule
    /\ Arguments(r) = Arguments(rule)

(* Rule.build(values): (domain_part, path), or None when the converter     *)
(* cannot format the value                                                 *)
NoBuild == [ok |-> FALSE, domain |-> "", rel |-> ""]
RuleBuild(hm, r, x) ==
    IF R(r).hasVar /\ x \notin Convertible THEN NoBuild
    ELSE [ok |-> TRUE, domain |-> RuleDomain(hm, r), rel |-> PathRel(r, x)]

(* ------------------------- Matcher (contract) ------------------------- *)
(* A request path: "/" static, then "/" x when x # 0, then a trailing      *)
(* separator when slash.                                                   *)
PathPart(req) ==
    "/" \o req.static \o (IF req.x # 0 THEN "/" \o to_url(req.x) ELSE "")
        \o (IF req.slash THEN "/" ELSE "")

NoOutcome == [kind |-> "none", rule |-> NoRule, endpoint |-> "", x |-> 0,
              have |-> {}, wsm |-> FALSE, rel |-> ""]

(* the rule matches the domain-part and the path up to a trailing separator *)
Structural(hm, r, dom, req) ==
    /\ RuleDomain(hm, r) = dom
    /\ R(r).static = req.static
    /\ R(r).hasVar <=> (req.x # 0)

(* the values of a match: the defaults, then the converted variable *)
Extracted(r, req) == IF R(r).hasVar THEN req.x ELSE R(r).defaults

(* Matcher.match over the compiled rules, in priority order (all rules     *)
(* matching one path have the same weight: registration order decides).    *)
RECURSIVE MatchScan(_, _, _, _, _, _, _, _)
MatchScan(hm, rules, dom, req, m, ws, have, wsm) ==
    IF rules = << >>
      THEN [NoOutcome EXCEPT !.kind = "NoMatch", !.have = have, !.wsm = wsm]
    ELSE LET r == Head(rules) IN
      IF ~Structural(hm, r, dom, req)
        THEN MatchScan(hm, Tail(rules), dom, req, m, ws, have, wsm)
      ELSE IF ~MethodOk(r, m)
        THEN MatchScan(hm, Tail(rules), dom, req, m, ws,
                       have \cup R(r).methods, wsm)
      ELSE IF R(r).websocket # ws
        THEN MatchScan(hm, Tail(rules), dom, req, m, ws, have, TRUE)
      ELSE IF req.slash
        THEN [NoOutcome EXCEPT !.kind = "RequestPath", !.rule = r,
                               !.rel = PathRel(r, req.x)]
      ELSE IF R(r).alias
        THEN [NoOutcome EXCEPT !.kind = "RequestAliasRedirect", !.rule = r,
                               !.endpoint = R(r).endpoint,
                               !.x = Extracted(r, req)]
      ELSE [NoOutcome EXCEPT !.kind = "Matched", !.rule = r,
                             !.endpoint = R(r).endpoint,
                             !.x = Extracted(r, req)]

(* the registered rules the last Matcher.update compiled, in order *)
RECURSIVE Compiled(_, _)
Compiled(rules, compiled) ==
    IF rules = << >> THEN << >>
    ELSE IF Head(rules) \in compiled
           THEN <<Head(rules)>> \o Compiled(Tail(rules), compiled)
           ELSE Compiled(Tail(rules), compiled)

MatcherMatch(hm, rules, compiled, dom, req, m, ws) ==
    MatchScan(hm, Compiled(rules, compiled), dom, req, m, ws, {}, FALSE)

(* ------------------------- MapAdapter --------------------------------- *)
(* Map.bind: with host matching there is no subdomain; script_name is      *)
(* kept by its core, "" for "/" and "app" for "/app/".                     *)
Bind(hm, sub, scheme, script, dm) ==
    [server_name |-> ServerName,
     script |-> script,
     subdomain |-> IF hm THEN NoneStr ELSE sub,
     url_scheme |-> scheme,
     default_method |-> dm,
     websocket |-> scheme \in {"ws", "wss"}]

NoAdapter == Bind(FALSE, "", "", "", "")

(* script_name.rstrip("/"), which is script_name[:-1] *)
ScriptPrefix(a) == IF a.script = "" THEN "" ELSE "/" \o a.script

(* MapAdapter.get_host *)
get_host(hm, a, domain_part) ==
    IF hm
      THEN IF domain_part = NoneStr THEN a.server_name ELSE domain_part
      ELSE LET subdomain == IF domain_part = NoneStr THEN a.subdomain
                            ELSE domain_part
           IN IF Truthy(subdomain) THEN subdomain \o "." \o a.server_name
              ELSE a.server_name

(* MapAdapter.make_redirect_url (no query arguments): urlunsplit of        *)
(* scheme, host and "/".join((script_name.strip("/"), path.lstrip("/")))   *)
make_redirect_url(hm, a, rel, domain_part) ==
    (IF a.url_scheme # "" THEN a.url_scheme ELSE "http") \o "://"
      \o get_host(hm, a, domain_part) \o ScriptPrefix(a) \o "/" \o rel

(* what a MapAdapter call returns or raises *)
NoResult == [kind |-> "none", url |-> "", cause |-> "", rule |-> NoRule,
             endpoint |-> "", x |-> 0, methods |-> {}, method |-> ""]
Raise(k) == [NoResult EXCEPT !.kind = k]
RequestRedirect(u, cause, r) ==
    [NoResult EXCEPT !.kind = "RequestRedirect", !.url = u, !.cause = cause,
                     !.rule = r]

(* self.map._rules_by_endpoint.get(endpoint, ()) *)
RulesOf(rbe, ep) == IF ep \in DOMAIN rbe THEN rbe[ep] ELSE << >>

(* ------------------------- MapAdapter._partial_build ------------------ *)
NoRv == [found |-> FALSE, rule |-> NoRule, domain |-> "", rel |-> "",
         websocket |-> FALSE]

(* rule.build(values) of a suitable rule: rv, when the build succeeds *)
Candidate(hm, r, x, m) ==
    LET b == RuleBuild(hm, r, x)
    IN [found |-> suitable_for(r, x, m) /\ b.ok, rule |-> r,
        domain |-> b.domain, rel |-> b.rel, websocket |-> R(r).websocket]

(* the loop over the endpoint's rules, first_match carried along *)
RECURSIVE PartialScan_SkipsFirst(_, _, _, _, _, _)
PartialScan_SkipsFirst(hm, rules, a, x, m, first_match) ==
    IF rules = << >> THEN first_match
    ELSE IF Candidate(hm, Head(rules), x, m).found
      THEN PartialScan_SkipsFirst(hm, Tail(rules), a, x, m,
                                  Candidate(hm, Head(rules), x, m))
      ELSE PartialScan_SkipsFirst(hm, Tail(rules), a, x, m, first_match)

RECURSIVE PartialScan_NoHostPreference(_, _, _, _, _, _)
PartialScan_NoHostPreference(hm, rules, a, x, m, first_match) ==
    IF rules = << >> THEN first_match
    ELSE IF Candidate(hm, Head(rules), x, m).found
      THEN Candidate(hm, Head(rules), x, m)
      ELSE PartialScan_NoHostPreference(hm, Tail(rules), a, x, m, first_match)

RECURSIVE PartialScan(_, _, _, _, _, _)
PartialScan(hm, rules, a, x, m, first_match) ==
    IF rules = << >> THEN first_match
    ELSE IF Candidate(hm, Head(rules), x, m).found
      THEN IF hm
             THEN IF RuleDomain(hm, Head(rules)) = a.server_name
                    THEN Candidate(hm, Head(rules), x, m)
                    ELSE PartialScan(hm, Tail(rules), a, x, m,
                           IF first_match.found THEN first_match
                           ELSE Candidate(hm, Head(rules), x, m))
             ELSE Candidate(hm, Head(rules), x, m)
      ELSE PartialScan(hm, Tail(rules), a, x, m, first_match)

(* method None: the default method is tried first *)
DefaultFirst_NotTried(m, dflt, scan) == scan

DefaultFirst(m, dflt, scan) == IF m = NoneStr /\ dflt.found THEN dflt ELSE scan

partial_build(hm, rbe, a, ep, x, m) ==
    DefaultFirst(m,
        PartialScan(hm, RulesOf(rbe, ep), a, x, a.default_method, NoRv),
        PartialScan(hm, RulesOf(rbe, ep), a, x, m, NoRv))

(* ------------------------- MapAdapter.build --------------------------- *)
(* the URL for the selected rule rv: scheme, host, relative or absolute *)
EffectiveScheme(a, url_scheme) ==
    IF url_scheme = NoneStr THEN a.url_scheme ELSE url_scheme

Secure(scheme) == scheme \in {"https", "wss"}

BuiltScheme_KeepsBound(websocket, scheme) == scheme

BuiltScheme(websocket, scheme) ==
    IF websocket THEN (IF Secure(scheme) THEN "wss" ELSE "ws")
    ELSE IF scheme # "" THEN (IF Secure(scheme) THEN "https" ELSE "http")
    ELSE scheme

Shortcut_AnyDomain(hm, a, domain_part, force_external, websocket) ==
    ~(force_external \/ websocket)

Shortcut(hm, a, domain_part, force_external, websocket) ==
    /\ ~(force_external \/ websocket)
    /\ \/ hm /\ get_host(hm, a, domain_part) = a.server_name
       \/ ~hm /\ domain_part = a.subdomain

AbsoluteUrl(scheme, host, a, rel) ==
    (IF scheme # "" THEN scheme \o ":" ELSE "")
      \o "//" \o host \o ScriptPrefix(a) \o "/" \o rel

Assemble(hm, a, rv, ep, x, m, force_external, url_scheme) ==
    IF ~rv.found
      THEN [Raise("BuildError") EXCEPT !.endpoint = ep, !.x = x, !.method = m]
    ELSE [NoResult EXCEPT
            !.kind = "Url",
            !.url = IF Shortcut(hm, a, rv.domain, force_external, rv.websocket)
                      THEN ScriptPrefix(a) \o "/" \o rv.rel
                      ELSE AbsoluteUrl(
                             BuiltScheme(rv.websocket,
                                         EffectiveScheme(a, url_scheme)),
                             get_host(hm, a, rv.domain), a, rv.rel),
            !.rule = rv.rule, !.endpoint = ep, !.x = x]

(* values = {k: v for k, v in values.items() if v is not None}: a value    *)
(* passed as None is dropped                                               *)
NoneValue == -1

Normalize_KeepsNone(x) == x

Normalize(x) == IF x = NoneValue THEN 0 ELSE x

(* after self.map.update(): select the rule, then assemble the URL *)
build(hm, rbe, a, ep, x, m, force_external, url_scheme) ==
    Assemble(hm, a, partial_build(hm, rbe, a, ep, Normalize(x), m), ep,
             Normalize(x), m,
             force_external, url_scheme)

(* ------------------------- MapAdapter.match --------------------------- *)
(* MapAdapter.make_alias_redirect_url (no query arguments): path is        *)
(* f"{domain_part}|{path_part}"                                            *)
AliasRedirect(b, path) ==
    IF b.kind = "BuildError" THEN b
    ELSE IF b.url = path THEN Raise("AssertionError")
    ELSE RequestRedirect(b.url, "alias", b.rule)

make_alias_redirect_url(hm, rbe, a, path, ep, x, m) ==
    AliasRedirect(build(hm, rbe, a, ep, x, m, TRUE, NoneStr), path)

(* except NoMatch as e: ... *)
NoMatchSignal_DropsMethod(out) ==
    IF out.have # {}
      THEN [Raise("MethodNotAllowed") EXCEPT
              !.methods = out.have \ {CHOOSE m \in out.have : TRUE}]
    ELSE IF out.wsm THEN Raise("WebsocketMismatch")
    ELSE Raise("NotFound")

NoMatchSignal(out) ==
    IF out.have # {}
      THEN [Raise("MethodNotAllowed") EXCEPT !.methods = out.have]
    ELSE IF out.wsm THEN Raise("WebsocketMismatch")
    ELSE Raise("NotFound")

(* MapAdapter.get_default_redirect: the loop over the endpoint's list,     *)
(* which ends at the matched rule; NoRule when it finds none               *)
RECURSIVE DefaultScan_NoBreak(_, _, _, _)
DefaultScan_NoBreak(rules, rule, m, x) ==
    IF rules = << >> THEN NoRule
    ELSE LET r == Head(rules) IN
         IF provides_defaults_for(r, rule) /\ suitable_for(r, x, m) THEN r
         ELSE DefaultScan_NoBreak(Tail(rules), rule, m, x)

RECURSIVE DefaultScan(_, _, _, _)
DefaultScan(rules, rule, m, x) ==
    IF rules = << >> THEN NoRule
    ELSE LET r == Head(rules) IN
         IF r = rule THEN NoRule
         ELSE IF provides_defaults_for(r, rule) /\ suitable_for(r, x, m) THEN r
         ELSE DefaultScan(Tail(rules), rule, m, x)

(* the redirect of get_default_redirect: values.update(r.defaults), then   *)
(* r.build(values) and make_redirect_url                                   *)
DefaultRedirect(hm, a, r) ==
    IF r = NoRule THEN NoResult
    ELSE RequestRedirect(
           make_redirect_url(hm, a, PathRel(r, R(r).defaults),
                             RuleDomain(hm, r)),
           "defaults", r)

get_default_redirect(hm, rbe, a, rule, m, x) ==
    DefaultRedirect(hm, a, DefaultScan(rbe[R(rule).endpoint], rule, m, x))

(* the redirect of a rule with redirect_to: urljoin of the bound root and  *)
(* the target (an absolute path)                                           *)
RedirectTarget(r) ==
    IF R(r).redirect_to = "callable" THEN "/f" ELSE R(r).redirect_to

redirect_to_url(a, r) ==
    (IF a.url_scheme # "" THEN a.url_scheme ELSE "http") \o "://"
      \o (IF Truthy(a.subdomain) THEN a.subdomain \o "." \o a.server_name
          ELSE a.server_name)
      \o RedirectTarget(r)

(* else: rule, rv = result ... *)
HasRedirectTo_UnlessReturnRule(r, return_rule) ==
    R(r).redirect_to # "" /\ ~return_rule
HasRedirectTo(r, return_rule) == R(r).redirect_to # ""

AfterDefaults(dr, a, out, return_rule) ==
    IF dr.kind = "RequestRedirect" THEN dr
    ELSE IF HasRedirectTo(out.rule, return_rule)
      THEN RequestRedirect(redirect_to_url(a, out.rule), "redirect_to",
                           out.rule)
    ELSE IF return_rule
      THEN [NoResult EXCEPT !.kind = "Success", !.rule = out.rule,
                            !.x = out.x]
    ELSE [NoResult EXCEPT !.kind = "Success",
                          !.endpoint = R(out.rule).endpoint, !.x = out.x]

MatchedResult(hm, rd, rbe, a, out, m, return_rule) ==
    AfterDefaults(
        IF rd THEN get_default_redirect(hm, rbe, a, out.rule, m, out.x)
        ELSE NoResult,
        a, out, return_rule)

(* method = (method or self.default_method).upper() *)
EffectiveMethod(a, m) == IF m = NoneStr THEN a.default_method ELSE m

(* if websocket is None: websocket = self.websocket *)
EffectiveWebsocket(a, ws) == IF ws = NoneStr THEN a.websocket ELSE ws = "True"

(* domain_part: the subdomain, or the server name with host matching *)
DomainPart(hm, a) ==
    IF ~hm /\ a.subdomain # NoneStr THEN a.subdomain ELSE a.server_name

(* the Matcher's outcome for the call *)
MatchOutcome(hm, mrules, compiled, a, req, m, ws) ==
    MatcherMatch(hm, mrules, compiled, DomainPart(hm, a), req,
                 EffectiveMethod(a, m), EffectiveWebsocket(a, ws))

(* the try / except / else of match, given the Matcher's outcome *)
MatchResult(hm, rd, rbe, a, req, m, return_rule, out) ==
    IF out.kind = "RequestPath"
      THEN RequestRedirect(make_redirect_url(hm, a, out.rel, NoneStr),
                           "path", out.rule)
    ELSE IF out.kind = "RequestAliasRedirect"
      THEN make_alias_redirect_url(hm, rbe, a,
               DomainPart(hm, a) \o "|" \o PathPart(req),
               out.endpoint, out.x, EffectiveMethod(a, m))
    ELSE IF out.kind = "NoMatch"
      THEN NoMatchSignal(out)
    ELSE MatchedResult(hm, rd, rbe, a, out, EffectiveMethod(a, m),
                       return_rule)

(* no call made yet *)
(* ------------------------- MapAdapter.dispatch / test ----------------- *)
(* the HTTPException classes match raises *)
HTTPExceptions ==
    {"RequestRedirect", "NotFound", "MethodNotAllowed", "WebsocketMismatch"}

(* what a call hands to its caller: a returned value or a raised           *)
(* exception, and the call of view_func it made                            *)
NoCompletion == [raised |-> FALSE, value |-> "", view_calls |-> 0,
                 view_endpoint |-> "", view_x |-> 0]
Returns(v) == [NoCompletion EXCEPT !.value = v]
Raises(v) == [NoCompletion EXCEPT !.raised = TRUE, !.value = v]

(* except HTTPException as e: if catch_http_exceptions: return e; raise *)
Caught(catch_http_exceptions, e) ==
    IF catch_http_exceptions THEN Returns(e) ELSE Raises(e)

(* return view_func(endpoint, args), view_func answering or raising an     *)
(* HTTPException of its own                                                *)
CallView(res, catch_http_exceptions, view_raises) ==
    [(IF view_raises THEN Caught(catch_http_exceptions, "ViewHTTPException")
      ELSE Returns("Response"))
       EXCEPT !.view_calls = 1, !.view_endpoint = res.endpoint,
              !.view_x = res.x]

(* MapAdapter.dispatch, res the outcome of self.match(path_info, method) *)
dispatch(res, catch_http_exceptions, view_raises) ==
    IF res.kind = "RequestRedirect" THEN Returns(res.kind)
    ELSE IF res.kind = "Success"
      THEN CallView(res, catch_http_exceptions, view_raises)
    ELSE IF res.kind \in HTTPExceptions
      THEN Caught(catch_http_exceptions, res.kind)
    ELSE Raises(res.kind)

test_RedirectIsFalse(res) ==
    IF res.kind = "Success" THEN Returns("True")
    ELSE IF res.kind \in HTTPExceptions THEN Returns("False")
    ELSE Raises(res.kind)

(* MapAdapter.test, res the outcome of self.match(path_info, method) *)
test(res) ==
    IF res.kind = "RequestRedirect" THEN Returns("True")
    ELSE IF res.kind \in HTTPExceptions THEN Returns("False")
    ELSE IF res.kind = "Success" THEN Returns("True")
    ELSE Raises(res.kind)

NoReq == [static |-> "", x |-> 0, slash |-> FALSE]
NoCall == [op |-> "none", a |-> NoAdapter, req |-> NoReq, m |-> NoneStr,
           return_rule |-> FALSE, ws |-> NoneStr, ep |-> "", x |-> 0,
           force_external |-> FALSE, url_scheme |-> NoneStr,
           out |-> NoOutcome, res |-> NoResult,
           catch_http_exceptions |-> FALSE, done |-> NoCompletion]

(* ------------------------------ Init ---------------------------------- *)
(* Map.__init__ with no rules: empty registry, dirty flag set, lock free.  *)
InitThreads ==
    /\ pc = [t \in Threads |-> "idle"]
    /\ op = [t \in Threads |-> "none"]
    /\ arg = [t \in Threads |-> NoRule]
    /\ started = [t \in Threads |-> {}]
    /\ sort_i = 0
    /\ snap = {}
    /\ failures = 0

(* Map.__init__ defaults: redirect_defaults=True, host_matching=False *)
InitDefaults ==
    /\ redirect_defaults = TRUE
    /\ host_matching = FALSE
    /\ last = NoCall

Init ==
    /\ rules_by_endpoint = [e \in Endpoints |-> << >>]
    /\ matcher_rules = << >>
    /\ matcher_compiled = {}
    /\ remap = TRUE
    /\ remap_lock = NoThread
    /\ unbound = ConcRules
    /\ covered = {}
    /\ returned = {}
    /\ fresh = FALSE
    /\ InitDefaults
    /\ InitThreads

(* ------------------------------ Map.add ------------------------------- *)
(* if not rule.build_only: self._matcher.add(rule) *)
MatcherAdd_BuildOnlyToo(rules, r) == Append(rules, r)

MatcherAdd(rules, r) == IF R(r).build_only THEN rules ELSE Append(rules, r)

(* rule.bind(self) takes the rule (a bound rule cannot be added again),    *)
(* then the rule is registered with the Matcher.                           *)
AddMatcher(t, r) ==
    /\ pc[t] = "idle"
    /\ r \in unbound
    /\ unbound' = unbound \ {r}
    /\ matcher_rules' = MatcherAdd(matcher_rules, r)
    /\ pc' = [pc EXCEPT ![t] = "add_append"]
    /\ op' = [op EXCEPT ![t] = "add"]
    /\ arg' = [arg EXCEPT ![t] = r]
    /\ UNCHANGED <<cfgvars, rules_by_endpoint, matcher_compiled, remap, remap_lock,
                   sort_i, snap, histvars, started>>

(* self._rules_by_endpoint.setdefault(rule.endpoint, []).append(rule) *)
EndpointAppend(rbe, r) ==
    [rbe EXCEPT ![R(r).endpoint] = Append(@, r)]

AddAppend(t) ==
    /\ pc[t] = "add_append"
    /\ rules_by_endpoint' = EndpointAppend(rules_by_endpoint, arg[t])
    /\ pc' = [pc EXCEPT ![t] = "add_remap"]
    /\ UNCHANGED <<cfgvars, matcher_rules, matcher_compiled, remap, remap_lock,
                   unbound, op, arg, sort_i, snap, histvars, started>>

(* self._remap = True, and add returns *)
AddSetRemap(t) ==
    /\ pc[t] = "add_remap"
    /\ remap' = TRUE
    /\ fresh' = FALSE
    /\ returned' = returned \cup {arg[t]}
    /\ pc' = [pc EXCEPT ![t] = "idle"]
    /\ op' = [op EXCEPT ![t] = "none"]
    /\ arg' = [arg EXCEPT ![t] = NoRule]
    /\ UNCHANGED <<cfgvars, rules_by_endpoint, matcher_rules, matcher_compiled,
                   remap_lock, unbound, sort_i, snap, covered, started>>

(* ------------------------------ Map.update ---------------------------- *)
(* update is called directly, and first thing by match and by build.       *)
Call(t, o) ==
    /\ pc[t] = "idle"
    /\ pc' = [pc EXCEPT ![t] = "check"]
    /\ op' = [op EXCEPT ![t] = o]
    /\ started' = [started EXCEPT ![t] = IF o = "update" THEN {} ELSE returned]
    /\ UNCHANGED <<cfgvars, mapvars, remap_lock, unbound, arg, sort_i, snap, histvars>>

CallUpdate(t) == Call(t, "update")
CallMatch(t) == Call(t, "match")
CallBuild(t) == Call(t, "build")

(* where update returns to: its caller goes on with the lookup *)
AfterUpdate(o) == IF o = "update" THEN "idle" ELSE "lookup"

Return(t) ==
    /\ pc' = [pc EXCEPT ![t] = AfterUpdate(op[t])]
    /\ op' = [op EXCEPT ![t] = IF AfterUpdate(op[t]) = "idle" THEN "none" ELSE @]

(* if not self._remap: return  (the unsynchronized fast path) *)
FastPathClean_Never(flag) == FALSE
FastPathClean(flag) == ~flag

UpdateCheck(t) ==
    /\ pc[t] = "check"
    /\ IF FastPathClean(remap)
         THEN Return(t)
         ELSE /\ pc' = [pc EXCEPT ![t] = "acquire"]
              /\ op' = op
    /\ UNCHANGED <<cfgvars, mapvars, remap_lock, unbound, arg, sort_i, snap, histvars,
                   started>>

(* with self._remap_lock: blocks until the lock is free *)
LockFree(l) == l = NoThread

UpdateAcquire(t) ==
    /\ pc[t] = "acquire"
    /\ LockFree(remap_lock)
    /\ remap_lock' = t
    /\ pc' = [pc EXCEPT ![t] = "recheck"]
    /\ UNCHANGED <<cfgvars, mapvars, unbound, op, arg, sort_i, snap, histvars, started>>

(* if not self._remap: return  (under the lock; leaving `with` releases) *)
LockedClean_NoRecheck(flag) == FALSE
LockedClean(flag) == ~flag

UpdateRecheck(t) ==
    /\ pc[t] = "recheck"
    /\ IF LockedClean(remap)
         THEN /\ Return(t)
              /\ remap_lock' = NoThread
         ELSE /\ pc' = [pc EXCEPT ![t] = "compile"]
              /\ op' = op
              /\ remap_lock' = remap_lock
    /\ UNCHANGED <<cfgvars, mapvars, unbound, arg, sort_i, snap, histvars, started>>

(* self._matcher.update(): compiles the rules registered so far *)
UpdateMatcher(t) ==
    /\ pc[t] = "compile"
    /\ matcher_compiled' = Range(matcher_rules)
    /\ fresh' = TRUE
    /\ snap' = Appended
    /\ sort_i' = 1
    /\ pc' = [pc EXCEPT ![t] = "sort"]
    /\ UNCHANGED <<cfgvars, rules_by_endpoint, matcher_rules, remap, remap_lock,
                   unbound, op, arg, covered, returned, started>>

(* for rules in self._rules_by_endpoint.values(): rules.sort(key=...)     *)
(* one list per step; after the last list the loop ends                    *)
UpdateSort(t) ==
    /\ pc[t] = "sort"
    /\ rules_by_endpoint' =
         [rules_by_endpoint EXCEPT ![EndpointOrder[sort_i]] = SortRules(@)]
    /\ IF sort_i < Len(EndpointOrder)
         THEN /\ sort_i' = sort_i + 1
              /\ pc' = pc
         ELSE /\ sort_i' = 0
              /\ pc' = [pc EXCEPT ![t] = "clear"]
    /\ UNCHANGED <<cfgvars, matcher_rules, matcher_compiled, remap, remap_lock, unbound,
                   op, arg, snap, histvars, started>>

(* self._remap = False *)
UpdateClear(t) ==
    /\ pc[t] = "clear"
    /\ remap' = FALSE
    /\ covered' = covered \cup snap
    /\ snap' = {}
    /\ pc' = [pc EXCEPT ![t] = "release"]
    /\ UNCHANGED <<cfgvars, rules_by_endpoint, matcher_rules, matcher_compiled,
                   remap_lock, unbound, op, arg, sort_i, returned, fresh,
                   started>>

(* leaving the with block releases the lock; update returns *)
UpdateRelease(t) ==
    /\ pc[t] = "release"
    /\ remap_lock' = NoThread
    /\ Return(t)
    /\ UNCHANGED <<cfgvars, mapvars, unbound, arg, sort_i, snap, histvars, started>>

(* ----------------- MapAdapter.match / build after update -------------- *)
(* match queries the Matcher, build scans the endpoint's rule list; both   *)
(* only read the Map.                                                      *)
Lookup(t) ==
    /\ pc[t] = "lookup"
    /\ pc' = [pc EXCEPT ![t] = "idle"]
    /\ op' = [op EXCEPT ![t] = "none"]
    /\ started' = [started EXCEPT ![t] = {}]
    /\ UNCHANGED <<cfgvars, mapvars, remap_lock, unbound, arg, sort_i, snap, histvars>>

UpdateStep(t) ==
    \/ UpdateCheck(t)
    \/ UpdateAcquire(t)
    \/ UpdateRecheck(t)
    \/ UpdateMatcher(t)
    \/ UpdateSort(t)
    \/ UpdateClear(t)
    \/ UpdateRelease(t)

Next ==
    \E t \in Threads :
        \/ \E r \in RuleIds : AddMatcher(t, r)
        \/ AddAppend(t)
        \/ AddSetRemap(t)
        \/ CallUpdate(t)
        \/ CallMatch(t)
        \/ CallBuild(t)
        \/ UpdateStep(t)
        \/ Lookup(t)

Spec == Init /\ [][Next]_vars

(* ----------------------- SpecUpdate: no add runs ---------------------- *)
(* Map(rules): the constructor has added the rules one after the other.    *)
RECURSIVE AddAll(_, _)
AddAll(rbe, s) ==
    IF s = << >> THEN rbe ELSE AddAll(EndpointAppend(rbe, Head(s)), Tail(s))

RECURSIVE MatcherAddAll(_, _)
MatcherAddAll(rules, s) ==
    IF s = << >> THEN rules
    ELSE MatcherAddAll(MatcherAdd(rules, Head(s)), Tail(s))

Orders(S) ==
    {s \in UNION {[1..n -> S] : n \in 0..Cardinality(S)} :
        \A i \in DOMAIN s : \A j \in DOMAIN s : i # j => s[i] # s[j]}

InitDirty ==
    /\ \E s \in Orders(ConcRules) :
         /\ rules_by_endpoint = AddAll([e \in Endpoints |-> << >>], s)
         /\ matcher_rules = MatcherAddAll(<< >>, s)
         /\ returned = Range(s)
    /\ matcher_compiled = {}
    /\ remap = TRUE
    /\ remap_lock = NoThread
    /\ unbound = {}
    /\ covered = {}
    /\ fresh = FALSE
    /\ InitDefaults
    /\ InitThreads

NextUpdate ==
    \E t \in Threads :
        \/ CallUpdate(t)
        \/ CallMatch(t)
        \/ CallBuild(t)
        \/ UpdateStep(t)
        \/ Lookup(t)

SpecUpdate == InitDirty /\ [][NextUpdate]_vars

(* ------------- SpecLive: the locked section may raise ----------------- *)
(* an exception leaving the with block releases the lock *)
ReleasedByWith_StillHeld(l) == l

ReleasedByWith(l) == NoThread

(* self._matcher.update() or a sort raises: the with block releases the    *)
(* lock, self._remap = False is not reached, and the exception ends the    *)
(* update call and the match or build call that made it                    *)
UpdateRaise(t) ==
    /\ pc[t] \in {"compile", "sort"}
    /\ failures < MaxFailures
    /\ failures' = failures + 1
    /\ remap_lock' = ReleasedByWith(remap_lock)
    /\ pc' = [pc EXCEPT ![t] = "idle"]
    /\ op' = [op EXCEPT ![t] = "none"]
    /\ started' = [started EXCEPT ![t] = {}]
    /\ sort_i' = 0
    /\ snap' = {}
    /\ UNCHANGED <<mapvars, unbound, arg, histvars, redirect_defaults,
                   host_matching, last>>

NextLive ==
    \E t \in Threads :
        \/ CallUpdate(t)
        \/ CallMatch(t)
        \/ CallBuild(t)
        \/ UpdateStep(t)
        \/ UpdateRaise(t)
        \/ Lookup(t)

(* a thread that can take its next step in update or in the lookup         *)
(* eventually takes it; a call, and an exception, need never happen        *)
Progress(t) == UpdateStep(t) \/ Lookup(t)
Fairness == \A t \in Threads : WF_vars(Progress(t))

SpecLive == InitDirty /\ [][NextLive]_vars /\ Fairness

(* ------------- SpecMatch, SpecBuild: one caller, whole calls ---------- *)
(* A single caller adds rules and binds adapters to match and build; each  *)
(* call runs from entry to return with no other call in between.           *)
(* the arguments of the calls *)
MatchSubdomains == {""}
MatchSchemes == {"http", "ws"}
BuildSubdomains == {"", "www"}
BuildSchemes == {"http", ""}
Requests ==
    {[static |-> "a", x |-> 0, slash |-> FALSE],
     [static |-> "a", x |-> 0, slash |-> TRUE],
     [static |-> "b", x |-> 0, slash |-> FALSE],
     [static |-> "b", x |-> 1, slash |-> FALSE],
     [static |-> "b", x |-> 2, slash |-> FALSE],
     [static |-> "c", x |-> 0, slash |-> FALSE]}
MatchMethods == {NoneStr, "POST", "PUT"}
WebsocketArgs == {NoneStr, "True"}
BuildEndpoints == Endpoints \cup {"nope"}
BuildValues == {NoneValue, 0, 1, 2, 9}
BuildMethods == {NoneStr, "GET", "POST"}
SchemeRules == {3, 5, 10}
SchemeSchemes == {"http", "https", "ws", "wss", ""}
SchemeArgs == {NoneStr, "https", "ws", ""}
SchemeMethods == {"GET", "POST"}
Adapters(hm, subdomains, schemes) ==
    {Bind(hm, sub, scheme, "", "GET") :
        sub \in (IF hm THEN {NoneStr} ELSE subdomains), scheme \in schemes}

InitAdapter(pool) ==
    /\ rules_by_endpoint = [e \in Endpoints |-> << >>]
    /\ matcher_rules = << >>
    /\ matcher_compiled = {}
    /\ remap = TRUE
    /\ remap_lock = NoThread
    /\ unbound = pool
    /\ covered = {}
    /\ returned = {}
    /\ fresh = FALSE
    /\ redirect_defaults \in BOOLEAN
    /\ host_matching \in BOOLEAN
    /\ last = NoCall
    /\ InitThreads

InitMatch == InitAdapter(MatchRules)
InitBuild == InitAdapter(BuildRules)
InitScheme == InitAdapter(SchemeRules)

threadvars == <<remap_lock, pc, op, arg, sort_i, snap, started, failures>>

(* Map.add(rule), entry to return *)
SeqAdd(r) ==
    /\ last.op = "none"
    /\ r \in unbound
    /\ Cardinality(Appended) < MaxRules
    /\ unbound' = unbound \ {r}
    /\ matcher_rules' = MatcherAdd(matcher_rules, r)
    /\ rules_by_endpoint' = EndpointAppend(rules_by_endpoint, r)
    /\ remap' = TRUE
    /\ fresh' = FALSE
    /\ returned' = returned \cup {r}
    /\ UNCHANGED <<matcher_compiled, covered, redirect_defaults,
                   host_matching, last, threadvars>>

(* Map.update(), entry to return: nothing when clean; else Matcher.update, *)
(* every list sorted, flag cleared                                         *)
UpdatedLists(flag, rbe) ==
    IF FastPathClean(flag) THEN rbe
    ELSE [e \in DOMAIN rbe |-> SortRules(rbe[e])]

UpdatedCompiled(flag, mrules, compiled) ==
    IF FastPathClean(flag) THEN compiled ELSE Range(mrules)

Update ==
    /\ rules_by_endpoint' = UpdatedLists(remap, rules_by_endpoint)
    /\ matcher_compiled' = UpdatedCompiled(remap, matcher_rules, matcher_compiled)
    /\ remap' = FALSE
    /\ fresh' = (fresh \/ remap)
    /\ covered' = IF remap THEN covered \cup Appended ELSE covered
    /\ UNCHANGED <<matcher_rules, unbound, returned, redirect_defaults,
                   host_matching, threadvars>>

SeqUpdate ==
    /\ last.op = "none"
    /\ remap \/ Appended # {}
    /\ Update
    /\ last' = [NoCall EXCEPT !.op = "update"]

(* MapAdapter.match(path_info, method, return_rule, websocket=ws) on an    *)
(* adapter bound for the call                                              *)
SeqMatch(a, req, m, return_rule, ws) ==
    /\ last.op = "none"
    /\ Update
    /\ \E out \in {MatchOutcome(host_matching, matcher_rules,
                                 matcher_compiled', a, req, m, ws)} :
          last' = [NoCall EXCEPT
                     !.op = "match", !.a = a, !.req = req, !.m = m,
                     !.return_rule = return_rule, !.ws = ws, !.out = out,
                     !.res = MatchResult(host_matching, redirect_defaults,
                                         rules_by_endpoint', a, req, m,
                                         return_rule, out)]

(* MapAdapter.build(endpoint, {x: x}, method, force_external,              *)
(* url_scheme=url_scheme)                                                  *)
SeqBuild(a, ep, x, m, force_external, url_scheme) ==
    /\ last.op = "none"
    /\ Update
    /\ last' = [NoCall EXCEPT
                  !.op = "build", !.a = a, !.ep = ep, !.x = x, !.m = m,
                  !.force_external = force_external,
                  !.url_scheme = url_scheme,
                  !.res = build(host_matching, rules_by_endpoint', a, ep, x, m,
                                force_external, url_scheme)]

(* MapAdapter.dispatch(view_func, path_info, method,                       *)
(* catch_http_exceptions)                                                  *)
SeqDispatch(a, req, m, catch_http_exceptions, view_raises) ==
    /\ last.op = "none"
    /\ Update
    /\ \E out \in {MatchOutcome(host_matching, matcher_rules,
                                 matcher_compiled', a, req, m, NoneStr)} :
       \E res \in {MatchResult(host_matching, redirect_defaults,
                               rules_by_endpoint', a, req, m, FALSE, out)} :
          last' = [NoCall EXCEPT
                     !.op = "dispatch", !.a = a, !.req = req, !.m = m,
                     !.catch_http_exceptions = catch_http_exceptions,
                     !.out = out, !.res = res,
                     !.done = dispatch(res, catch_http_exceptions,
                                       view_raises)]

(* MapAdapter.test(path_info, method) *)
SeqTest(a, req, m) ==
    /\ last.op = "none"
    /\ Update
    /\ \E out \in {MatchOutcome(host_matching, matcher_rules,
                                 matcher_compiled', a, req, m, NoneStr)} :
       \E res \in {MatchResult(host_matching, redirect_defaults,
                               rules_by_endpoint', a, req, m, FALSE, out)} :
          last' = [NoCall EXCEPT
                     !.op = "test", !.a = a, !.req = req, !.m = m,
                     !.out = out, !.res = res, !.done = test(res)]

(* the caller takes the result *)
SeqReturn ==
    /\ last.op # "none"
    /\ last' = NoCall
    /\ UNCHANGED <<mapvars, unbound, histvars, redirect_defaults,
                   host_matching, threadvars>>

NextMatch ==
    \/ \E r \in RuleIds : SeqAdd(r)
    \/ SeqUpdate
    \/ \E a \in Adapters(host_matching, MatchSubdomains, MatchSchemes),
          req \in Requests, m \in MatchMethods, return_rule \in BOOLEAN,
          ws \in WebsocketArgs :
          SeqMatch(a, req, m, return_rule, ws)
    \/ SeqReturn

NextBuild ==
    \/ \E r \in RuleIds : SeqAdd(r)
    \/ SeqUpdate
    \/ \E a \in Adapters(host_matching, BuildSubdomains, BuildSchemes),
          ep \in BuildEndpoints, x \in BuildValues, m \in BuildMethods,
          force_external \in BOOLEAN :
          SeqBuild(a, ep, x, m, force_external, NoneStr)
    \/ SeqReturn

NextDispatch ==
    \/ \E r \in RuleIds : SeqAdd(r)
    \/ SeqUpdate
    \/ \E a \in Adapters(host_matching, MatchSubdomains, MatchSchemes),
          req \in Requests, m \in MatchMethods,
          catch_http_exceptions \in BOOLEAN, view_raises \in BOOLEAN :
          SeqDispatch(a, req, m, catch_http_exceptions, view_raises)
    \/ \E a \in Adapters(host_matching, MatchSubdomains, MatchSchemes),
          req \in Requests, m \in MatchMethods :
          SeqTest(a, req, m)
    \/ SeqReturn

(* builds of one endpoint's HTTP, websocket and other-domain rules under   *)
(* every bound scheme and url_scheme argument                              *)
NextScheme ==
    \/ \E r \in RuleIds : SeqAdd(r)
    \/ SeqUpdate
    \/ \E a \in Adapters(host_matching, BuildSubdomains, SchemeSchemes),
          m \in SchemeMethods, force_external \in BOOLEAN,
          url_scheme \in SchemeArgs :
          SeqBuild(a, "e1", 0, m, force_external, url_scheme)
    \/ SeqReturn

SpecMatch == InitMatch /\ [][NextMatch]_vars
SpecBuild == InitBuild /\ [][NextBuild]_vars
SpecScheme == InitScheme /\ [][NextScheme]_vars
SpecDispatch == InitMatch /\ [][NextDispatch]_vars

(* ============================ the claims ============================== *)
UpdateSection ==
    {"check", "acquire", "recheck", "compile", "sort", "clear", "release"}
RebuildSection == {"compile", "sort", "clear"}
AllSorted == \A e \in Endpoints : IsSorted(rules_by_endpoint[e])

(* C1: once add(r) has returned, a match or build call that starts         *)
(* afterwards does its lookup only after a completed recompilation that    *)
(* includes r; the dirty flag is never false while a rule whose add has    *)
(* returned is not covered by a completed recompilation.                   *)
C1_AddedRuleSeenByNextLookup ==
    /\ \A t \in Threads : pc[t] = "lookup" => started[t] \subseteq covered
    /\ ~remap => returned \subseteq covered

(* C2: N threads calling update on a dirty Map with no add running: at     *)
(* most one thread is inside the rebuild at any time, Matcher.update runs  *)
(* only when no rebuild has run since the flag was set (so exactly one     *)
(* thread rebuilds), and whenever a thread returns from update the         *)
(* rebuild has run, no thread is still inside it and the flag is false.    *)
C2_Step ==
    /\ Cardinality({t \in Threads : pc'[t] \in RebuildSection}) <= 1
    /\ \A t \in Threads :
         /\ (pc[t] = "compile" /\ pc'[t] = "sort") => ~fresh
         /\ (pc[t] \in UpdateSection /\ pc'[t] \notin UpdateSection) =>
               /\ remap' = FALSE
               /\ fresh'
               /\ AllSorted'
               /\ \A u \in Threads : pc'[u] \notin RebuildSection

C2_OneRebuildPerDirtyCycle == [][C2_Step]_vars

(* a thread took the lock after another thread's rebuild and finds the     *)
(* flag already false                                                      *)
C2_Witness ==
    \E t \in Threads : \E u \in Threads :
        /\ t # u
        /\ pc[t] = "recheck" /\ ~remap /\ fresh
        /\ pc[u] \in {"idle", "lookup"}

(* C3: the dirty flag is false, and every endpoint list sorted, at the     *)
(* moment match queries the Matcher or build reads the endpoint's list.    *)
C3_CleanAndSortedAtLookup ==
    \A t \in Threads : pc[t] = "lookup" => (~remap /\ AllSorted)

(* C4: update on a clean Map does nothing: it returns without taking the   *)
(* lock, without Matcher.update, lists and flag unchanged; and             *)
(* Matcher.update never runs a second time unless the flag was set in      *)
(* between (update twice in a row recompiles once).                        *)
C4_Step ==
    \A t \in Threads :
        /\ (pc[t] = "check" /\ ~remap /\ pc'[t] # pc[t]) =>
              /\ pc'[t] = AfterUpdate(op[t])
              /\ UNCHANGED <<mapvars, remap_lock, fresh>>
        /\ (pc[t] = "compile" /\ pc'[t] = "sort") => ~fresh

C4_UpdateIdempotent == [][C4_Step]_vars

(* a second update call finds the Map clean after a recompilation          *)
C4_Witness ==
    \E t \in Threads :
        pc[t] = "check" /\ op[t] = "update" /\ ~remap /\ fresh /\ covered # {}

(* ------------------------- MapAdapter.match --------------------------- *)
MatchCall == last.op = "match"
Method == EffectiveMethod(last.a, last.m)

(* the URL the request was made to *)
RequestUrl ==
    (IF last.a.url_scheme # "" THEN last.a.url_scheme ELSE "http") \o "://"
      \o (IF Truthy(last.a.subdomain)
            THEN last.a.subdomain \o "." \o last.a.server_name
            ELSE last.a.server_name)
      \o ScriptPrefix(last.a) \o PathPart(last.req)

(* the methods of the registered rules that match the request's domain     *)
(* and path but not its method                                             *)
AllowedMethods ==
    UNION {R(r).methods :
             r \in {q \in Range(matcher_rules) :
                      /\ Structural(host_matching, q,
                                    DomainPart(host_matching, last.a), last.req)
                      /\ ~MethodOk(q, Method)}}

(* C5: a NoMatch outcome that carries websocket_mismatch makes match fail  *)
(* with WebsocketMismatch, whether or not it also carries allowed methods. *)
C5_WebsocketMismatchFirst ==
    (MatchCall /\ last.out.kind = "NoMatch" /\ last.out.wsm)
        => last.res.kind = "WebsocketMismatch"

(* C6: a NoMatch outcome without websocket mismatch makes match fail with  *)
(* MethodNotAllowed carrying exactly the allowed methods (those of the     *)
(* rules matching the path but not the method) when there are any, and     *)
(* with NotFound when there are none; never a success, never a redirect.   *)
C6_MethodNotAllowedOrNotFound ==
    (MatchCall /\ last.out.kind = "NoMatch" /\ ~last.out.wsm) =>
        IF last.out.have # {}
          THEN /\ last.res.kind = "MethodNotAllowed"
               /\ last.res.methods = last.out.have
               /\ last.res.methods = AllowedMethods
          ELSE /\ last.res.kind = "NotFound"
               /\ AllowedMethods = {}

(* PUT on a path with a GET rule and a POST rule *)
C6_Witness ==
    /\ MatchCall /\ last.out.kind = "NoMatch" /\ ~last.out.wsm
    /\ last.m = "PUT"
    /\ last.res.kind = "MethodNotAllowed"
    /\ last.res.methods = {"GET", "POST"}

(* C7: when the Matcher reports a rule with redirect_to as matched, match  *)
(* never returns a success; it fails with a RequestRedirect.               *)
C7_RedirectToNeverDispatches ==
    (MatchCall /\ last.out.kind = "Matched"
       /\ R(last.out.rule).redirect_to # "")
        => last.res.kind = "RequestRedirect"

(* the rule is asked for and redirect_defaults is off *)
C7_Witness ==
    /\ MatchCall /\ last.out.kind = "Matched"
    /\ R(last.out.rule).redirect_to = "callable"
    /\ last.return_rule /\ ~redirect_defaults
    /\ last.res.kind = "RequestRedirect" /\ last.res.cause = "redirect_to"

(* position of rule r in the list s *)
Index(s, r) == CHOOSE i \in 1..Len(s) : s[i] = r

(* p can redirect a match of rule for the call's values and method *)
Qualifies(p, rule) ==
    /\ provides_defaults_for(p, rule)
    /\ suitable_for(p, last.out.x, Method)

(* the rules of order (a list holding rule) that are before rule and       *)
(* qualify                                                                 *)
QualifyingBefore(order, rule) ==
    {p \in Range(order) :
        Index(order, p) < Index(order, rule) /\ Qualifies(p, rule)}

(* a default redirect is raised exactly when a rule before the matched     *)
(* rule in order qualifies, and then by the first of them                  *)
DefaultRedirectFollows(order) ==
    (MatchCall /\ last.out.kind = "Matched") =>
        LET Q == QualifyingBefore(order, last.out.rule) IN
        IF redirect_defaults /\ Q # {}
          THEN /\ last.res.kind = "RequestRedirect"
               /\ last.res.cause = "defaults"
               /\ last.res.rule \in Q
               /\ \A p \in Q : Index(order, last.res.rule) <= Index(order, p)
               /\ last.res.url =
                    make_redirect_url(host_matching, last.a,
                        PathRel(last.res.rule, R(last.res.rule).defaults),
                        RuleDomain(host_matching, last.res.rule))
          ELSE last.res.cause # "defaults"

(* C8 as claimed: with redirect_defaults, only a rule registered before    *)
(* the matched rule for the same endpoint triggers a default redirect: the *)
(* first such rule that provides defaults and is suitable; none otherwise. *)
C8_RegisteredBefore == DefaultRedirectFollows(matcher_rules)

(* C8 amended: "before" is the position in the endpoint's rule list as     *)
(* update sorted it (build-comparison order, registration order among      *)
(* equal keys), not the order of registration.                             *)
C8_ListedBefore ==
    (MatchCall /\ last.out.kind = "Matched") =>
        DefaultRedirectFollows(rules_by_endpoint[R(last.out.rule).endpoint])

(* the redirecting rule was registered after the matched rule *)
C8_Witness ==
    /\ MatchCall /\ last.out.kind = "Matched"
    /\ last.res.cause = "defaults"
    /\ Index(matcher_rules, last.out.rule) < Index(matcher_rules, last.res.rule)

(* C9: the URL match raises for an alias redirect differs from the URL     *)
(* that was requested; an alias whose rebuilt URL is the requested one is  *)
(* an assertion failure, not a redirect.                                   *)
C9_AliasRedirectLeavesRequestUrl ==
    (MatchCall /\ last.out.kind = "RequestAliasRedirect"
       /\ last.res.kind = "RequestRedirect")
        => last.res.url # RequestUrl

(* ------------------------- MapAdapter.build --------------------------- *)
BuildCall == last.op = "build"
BuildList == RulesOf(rules_by_endpoint, last.ep)

(* the values the caller gave: a value given as None is no value *)
GivenValues == IF last.x = NoneValue THEN 0 ELSE last.x

(* the positions of the endpoint's rules that qualify for the call's       *)
(* values and method m: suitable, and the substitution succeeds            *)
QualifyingAt(m) ==
    {i \in 1..Len(BuildList) :
        /\ suitable_for(BuildList[i], GivenValues, m)
        /\ RuleBuild(host_matching, BuildList[i], GivenValues).ok}

First(Q) == CHOOSE i \in Q : \A j \in Q : i <= j

(* the method of the scan that selects the rule: a call without method is  *)
(* scanned for the adapter's default method first                          *)
ScanMethod ==
    IF last.m = NoneStr /\ QualifyingAt(last.a.default_method) # {}
      THEN last.a.default_method
      ELSE last.m

(* build uses the first rule of the endpoint's list, which is in           *)
(* build-comparison order, that qualifies for m, and fails when none does  *)
FirstQualifyingUsed(m) ==
    /\ IsSorted(BuildList)
    /\ IF QualifyingAt(m) = {}
         THEN last.res.kind = "BuildError"
         ELSE /\ last.res.kind = "Url"
              /\ last.res.rule = BuildList[First(QualifyingAt(m))]

(* C10 as claimed: for every endpoint, value set and method, build uses    *)
(* the first rule in the endpoint's build-comparison order that qualifies  *)
(* (variables supplied, method accepted, substitution succeeds); no later  *)
(* rule is used while an earlier one qualifies.                            *)
C10_FirstQualifyingRule == BuildCall => FirstQualifyingUsed(last.m)

(* C10 amended: with host_matching disabled, build uses the first rule in  *)
(* the endpoint's build-comparison order that qualifies for the method of  *)
(* the selecting scan, which for a call without method is the adapter's    *)
(* default method whenever some rule qualifies for it.                     *)
C10_FirstQualifyingForScan ==
    (BuildCall /\ ~host_matching) => FirstQualifyingUsed(ScanMethod)

(* two rules qualify and the list's first rule, which takes any method     *)
(* without one being asked, is passed over for the default method's rule   *)
C10_Witness ==
    /\ BuildCall /\ ~host_matching /\ last.m = NoneStr
    /\ Cardinality(QualifyingAt(NoneStr)) >= 2
    /\ First(QualifyingAt(NoneStr)) < First(QualifyingAt(ScanMethod))
    /\ last.res.kind = "Url"
    /\ last.res.rule = BuildList[First(QualifyingAt(ScanMethod))]

(* the qualifying positions whose rule builds the adapter's own host *)
OwnHostAt(m) ==
    {i \in QualifyingAt(m) :
        RuleDomain(host_matching, BuildList[i]) = last.a.server_name}

(* among the rules that qualify for m: with host_matching the first whose  *)
(* host is the adapter's server_name when there is one, the first          *)
(* qualifying rule otherwise; BuildError when none qualifies               *)
HostPreferredUsed(m) ==
    IF QualifyingAt(m) = {}
      THEN last.res.kind = "BuildError"
      ELSE /\ last.res.kind = "Url"
           /\ last.res.rule =
                IF host_matching /\ OwnHostAt(m) # {}
                  THEN BuildList[First(OwnHostAt(m))]
                  ELSE BuildList[First(QualifyingAt(m))]

(* C11 as claimed: with host_matching, among the rules eligible for the    *)
(* given values and method build uses one whose host is the adapter's      *)
(* server_name if any has it, else the first eligible; with host_matching  *)
(* disabled it always uses the first eligible rule.                        *)
C11_OwnHostPreferred == BuildCall => HostPreferredUsed(last.m)

(* C11 amended: the same, the eligible rules being those that qualify for  *)
(* the method of the selecting scan: for a call without method the         *)
(* adapter's default method whenever some rule qualifies for it.           *)
C11_OwnHostPreferredForScan == BuildCall => HostPreferredUsed(ScanMethod)

(* an eligible rule of another host is listed before the own-host rule     *)
(* that build uses                                                         *)
C11_Witness ==
    /\ BuildCall /\ host_matching /\ last.res.kind = "Url"
    /\ OwnHostAt(ScanMethod) # {}
    /\ First(QualifyingAt(ScanMethod)) < First(OwnHostAt(ScanMethod))
    /\ last.res.rule = BuildList[First(OwnHostAt(ScanMethod))]

(* the error of a failed build carries the endpoint, the normalized values *)
(* and the method as passed                                                *)
BuildErrorCarriesCall ==
    /\ last.res.endpoint = last.ep
    /\ last.res.x = GivenValues
    /\ last.res.method = last.m

(* a build call: it fails with BuildError exactly when no rule of the      *)
(* endpoint qualifies, and a failed build leaves the lists sorted as       *)
(* update sorts them, the Matcher's rules untouched and the flag clear     *)
C12_Step ==
    (last.op = "none" /\ last'.op = "build") =>
        /\ (last.res.kind = "BuildError")' <=> (QualifyingAt(last.m) = {})'
        /\ (last.res.kind = "BuildError")' =>
              /\ BuildErrorCarriesCall'
              /\ rules_by_endpoint' =
                   [e \in Endpoints |-> SortRules(rules_by_endpoint[e])]
              /\ matcher_rules' = matcher_rules
              /\ remap' = FALSE

(* C12: build fails with BuildError carrying the endpoint, the normalized  *)
(* values and the method as passed exactly when no rule of the endpoint    *)
(* qualifies, an endpoint without rules included; the failure leaves the   *)
(* Map's rule lists and dirty flag as update left them.                    *)
C12_BuildErrorWhenNoRuleQualifies == [][C12_Step]_vars

(* an endpoint with a rule whose variable was passed as None *)
C12_Witness ==
    /\ BuildCall /\ last.res.kind = "BuildError"
    /\ BuildList # << >> /\ last.x = NoneValue /\ last.m = "POST"
    /\ BuildErrorCarriesCall

(* ------------------------- the URL build emits ------------------------ *)
(* the scheme asked for: the url_scheme argument, else the bound scheme *)
AskedScheme ==
    IF last.url_scheme = NoneStr THEN last.a.url_scheme ELSE last.url_scheme
AskedSecure == AskedScheme \in {"https", "wss"}

UsedRule == last.res.rule
UsedWebsocket == R(UsedRule).websocket

(* the host of the rule build used, seen from the adapter *)
UsedHost ==
    IF host_matching THEN RuleDomain(TRUE, UsedRule)
    ELSE IF RuleDomain(FALSE, UsedRule) = "" THEN last.a.server_name
    ELSE RuleDomain(FALSE, UsedRule) \o "." \o last.a.server_name

(* the rule's domain-part is the adapter's own *)
OwnDomain ==
    IF host_matching THEN UsedHost = last.a.server_name
    ELSE RuleDomain(FALSE, UsedRule) = last.a.subdomain

UsedPath == ScriptPrefix(last.a) \o "/" \o PathRel(UsedRule, GivenValues)
RelativeUrl == UsedPath
SchemeUrl(scheme) == scheme \o "://" \o UsedHost \o UsedPath
SchemelessUrl == "//" \o UsedHost \o UsedPath
Built == BuildCall /\ last.res.kind = "Url"

(* C13: a build that uses a websocket rule gives an absolute URL, also     *)
(* when not forced external on the adapter's own domain, of scheme wss     *)
(* when the asked scheme is https or wss and ws otherwise; a build that    *)
(* uses an HTTP rule with a non-empty asked scheme emits, when it emits a  *)
(* scheme, https when the asked scheme is https or wss and http otherwise. *)
C13_SchemeFollowsTransport ==
    Built =>
        IF UsedWebsocket
          THEN last.res.url = SchemeUrl(IF AskedSecure THEN "wss" ELSE "ws")
          ELSE AskedScheme # "" =>
                 last.res.url \in
                   {RelativeUrl,
                    SchemeUrl(IF AskedSecure THEN "https" ELSE "http")}

(* a websocket rule on the adapter's own domain, not forced external, on   *)
(* an adapter bound with http and asked for https                          *)
C13_Witness ==
    /\ Built /\ UsedWebsocket /\ OwnDomain /\ ~last.force_external
    /\ last.a.url_scheme = "http" /\ last.url_scheme = "https"
    /\ last.res.url = "wss://example.com/a"

(* the URL is relative exactly when it is not forced external, the rule is *)
(* no websocket rule and its domain is the adapter's own                   *)
RelativeWhenOwn ==
    ~last.force_external /\ ~UsedWebsocket /\ OwnDomain

AnySchemeUrl == {SchemeUrl(sch) : sch \in {"http", "https", "ws", "wss"}}

(* C14 as claimed: build emits the relative script-rooted URL if and only  *)
(* if it is not forced external (force_external false, no websocket rule)  *)
(* and the rule's domain-part is the adapter's own; in every other case    *)
(* the absolute form scheme://host/path, or //host/path when the effective *)
(* scheme (url_scheme argument, else bound scheme) is empty.               *)
C14_RelativeOrAbsolute ==
    Built =>
        IF RelativeWhenOwn THEN last.res.url = RelativeUrl
        ELSE IF AskedScheme = "" THEN last.res.url = SchemelessUrl
        ELSE last.res.url \in AnySchemeUrl

(* C14 amended: the protocol-relative form is emitted when the effective   *)
(* scheme is empty and the rule is no websocket rule; a websocket rule is  *)
(* always emitted with its scheme.                                         *)
C14_RelativeOrAbsoluteByTransport ==
    Built =>
        IF RelativeWhenOwn THEN last.res.url = RelativeUrl
        ELSE IF AskedScheme = "" /\ ~UsedWebsocket
          THEN last.res.url = SchemelessUrl
        ELSE last.res.url \in AnySchemeUrl

(* a rule of another subdomain, not forced external, no scheme bound *)
C14_Witness ==
    /\ Built /\ ~host_matching /\ ~last.force_external /\ ~UsedWebsocket
    /\ ~OwnDomain /\ AskedScheme = ""
    /\ last.res.url = "//www.example.com/a"

(* ------------------------- MapAdapter.dispatch ------------------------ *)
DispatchCall == last.op = "dispatch"

(* C15: with catch_http_exceptions false every signal match raises         *)
(* (redirect, not found, method not allowed, websocket mismatch) leaves    *)
(* dispatch as an exception; with catch_http_exceptions true it is         *)
(* returned as the result; view_func is called, once and with the matched  *)
(* endpoint and values, if and only if match succeeds.                     *)
C15_SignalsPropagateUnlessCaught ==
    DispatchCall =>
        /\ last.res.kind \in HTTPExceptions =>
              /\ last.done.value = last.res.kind
              /\ last.done.raised = ~last.catch_http_exceptions
        /\ last.done.view_calls = (IF last.res.kind = "Success" THEN 1 ELSE 0)
        /\ last.res.kind = "Success" =>
              /\ last.done.view_endpoint = last.res.endpoint
              /\ last.done.view_x = last.res.x

(* ------------------------- MapAdapter.test ---------------------------- *)
TestCall == last.op = "test"

(* what match gives for the path and method test was called with *)
WouldMatch ==
    MatchResult(host_matching, redirect_defaults, rules_by_endpoint, last.a,
                last.req, last.m, FALSE,
                MatchOutcome(host_matching, matcher_rules, matcher_compiled,
                             last.a, last.req, last.m, NoneStr))

(* C16: test returns true exactly when match with the same path and method *)
(* succeeds or raises a redirect, false exactly when match raises not      *)
(* found, method not allowed or websocket mismatch, and raises none of     *)
(* these itself.                                                           *)
C16_TestMirrorsMatch ==
    TestCall =>
        /\ WouldMatch.kind \in {"Success"} \cup HTTPExceptions
        /\ ~last.done.raised
        /\ last.done.value \in {"True", "False"}
        /\ last.done.value = "True"
              <=> WouldMatch.kind \in {"Success", "RequestRedirect"}
        /\ last.done.value = "False"
              <=> WouldMatch.kind \in
                    {"NotFound", "MethodNotAllowed", "WebsocketMismatch"}

(* a path that match answers with a default redirect *)
C16_Witness ==
    /\ TestCall /\ last.done.value = "True"
    /\ WouldMatch.kind = "RequestRedirect" /\ WouldMatch.cause = "defaults"

(* ------------------- build without a method --------------------------- *)
DefaultMethod == last.a.default_method

(* C17: build with method None first scans for the adapter's               *)
(* default_method and uses that scan's rule if any rule qualifies; only    *)
(* when none does it scans for method None. So the rule used accepts the   *)
(* default method whenever an eligible rule does, even if a rule earlier   *)
(* in the list is eligible for other methods only.                         *)
C17_DefaultMethodFirst ==
    (BuildCall /\ last.m = NoneStr) =>
        IF QualifyingAt(DefaultMethod) # {}
          THEN /\ HostPreferredUsed(DefaultMethod)
               /\ MethodOk(last.res.rule, DefaultMethod)
          ELSE HostPreferredUsed(NoneStr)

(* the list's first rule takes POST only and is eligible without a method; *)
(* the rule used is a later one that takes the default method              *)
C17_Witness ==
    /\ BuildCall /\ last.m = NoneStr /\ last.res.kind = "Url"
    /\ BuildList # << >>
    /\ 1 \in QualifyingAt(NoneStr)
    /\ ~MethodOk(BuildList[1], DefaultMethod)
    /\ last.res.rule # BuildList[1]
    /\ MethodOk(last.res.rule, DefaultMethod)

(* ------------------- the registry after add and update ---------------- *)
Occurrences(s, r) == Cardinality({i \in 1..Len(s) : s[i] = r})

(* C18: the rules registered with the Matcher are exactly the added rules  *)
(* that are not build_only; every added rule, build_only or not, is        *)
(* exactly once in the list of its endpoint and in no other list, before   *)
(* and after update's sort, so a build_only rule stays available to build. *)
C18_BuildOnlyOutsideMatcher ==
    /\ Range(matcher_rules) = {r \in returned : ~R(r).build_only}
    /\ \A r \in Range(matcher_rules) : Occurrences(matcher_rules, r) = 1
    /\ matcher_compiled \subseteq Range(matcher_rules)
    /\ \A e \in Endpoints :
          /\ Range(rules_by_endpoint[e]) = {r \in returned : R(r).endpoint = e}
          /\ \A r \in Range(rules_by_endpoint[e]) :
                Occurrences(rules_by_endpoint[e], r) = 1

(* a build_only rule, listed with a matchable rule of its endpoint, is     *)
(* used by build and unknown to the Matcher                                *)
C18_Witness ==
    /\ BuildCall /\ last.res.kind = "Url"
    /\ R(last.res.rule).build_only
    /\ last.res.rule \notin Range(matcher_rules)
    /\ Len(BuildList) = 2 /\ matcher_rules # << >>

(* ------------------- update under fair scheduling --------------------- *)
InUpdate(t) == pc[t] \in UpdateSection
Recompiled ==
    ~remap /\ AllSorted /\ matcher_compiled = Range(matcher_rules)

(* a step in which the locked section raises *)
RaiseStep == failures' # failures

(* C19: under fair scheduling every update call returns; the lock is free  *)
(* whenever no thread is inside update; when Matcher.update or a sort      *)
(* raises in the locked section the lock is released and the flag stays    *)
(* true, and an update call made when nothing raises any more gets the     *)
(* recompilation done.                                                     *)
C19_UpdateReturnsLockReleased ==
    /\ \A t \in Threads : InUpdate(t) ~> ~InUpdate(t)
    /\ []((\A t \in Threads : ~InUpdate(t)) => LockFree(remap_lock))
    /\ [][RaiseStep => LockFree(remap_lock') /\ remap /\ remap']_vars
    /\ \A t \in Threads :
          (pc[t] = "check" /\ failures = MaxFailures) ~> Recompiled

(* after a recompilation raised, a later call has recompiled while another *)
(* thread waited for the lock                                              *)
C19_Witness ==
    /\ failures > 0 /\ Recompiled /\ Appended # {}
    /\ \E t \in Threads : pc[t] = "acquire"

====
